---- MODULE Spec2Model ----
(***************************************************************************)
(* The Autocomplete combobox of react-autocomplete: the container widget   *)
(* (src/src/Autocomplete.tsx), the option item (AutocompleteOption), the   *)
(* default ActiveDescendantContext, and the active-descendant tracker the  *)
(* container drives (useTrackActiveDescendant, whose file is not among the *)
(* sources and is modelled from the specification, section 4.1).           *)
(***************************************************************************)
EXTENDS Integers, Sequences, FiniteSets, TLC

\* ------------------------------------------------------------------ bounds
\* number of option ids a host may render as children (ids are 1..MaxOptions)
MaxOptions == 3
\* number of host selection notifications recorded in one behaviour
MaxLog == 2
\* length of an ArrowDown / ArrowUp run that the press counters follow
MaxPresses == 4

\* ------------------------------------------------------- values and inputs
\* the tracker's "no active id" (activeDescendant.current is null)
null == 0
\* an attribute React leaves out of the rendered element (x ?? undefined)
undefined == 0 - 1

KeyCode ==
  [DOWN |-> "ArrowDown", UP |-> "ArrowUp", ESC |-> "Escape", ENTER |-> "Enter"]

\* keys a keydown may carry: the four the widget handles and one it does not
Keys == {KeyCode.DOWN, KeyCode.UP, KeyCode.ESC, KeyCode.ENTER, "a"}

\* process.env.NODE_ENV of the build
NodeEnvs == {"production", "development"}

OptionIds == 1..MaxOptions

\* the opaque value payload the host attaches to the option with this id
\* (<AutocompleteOption id=... value=...>); distinct from every id
OptionValue(id) == 10 + id

VARIABLES
  expanded,        \* useState(false), Autocomplete.tsx:61
  current,         \* activeDescendant.current, the tracker's active id
  options,         \* props.children: the option ids in document order
  autoExpand,      \* props.autoExpand
  hasOnOptionSelect, \* whether the host passed props.onOptionSelect
  hasOnKeyDown,    \* whether the host passed props.onKeyDown
  nodeEnv,         \* process.env.NODE_ENV
  notified,        \* values the host's onOptionSelect was called with, in order
  dom,             \* the rendered output of the last render
  pc,              \* position inside a pointer interaction on an option
  pointerTarget,   \* the option the pointer interaction started on
  event,           \* the event the last handler ran for
  prevented,       \* e.preventDefault() was called on the last keydown
  thrown,          \* the last operation raised an Error
  ret,             \* what the last context operation returned
  entry,           \* calls the selection entry point made in the last handler
  keyPassed,       \* what the host's onKeyDown saw, once per call, on the last keydown
  pointerStart,    \* notified when the last pointer interaction began
  pre,             \* expanded, current and notified when the last handler began
  downs            \* consecutive ArrowDown keydowns since expanded with no active id

vars == <<expanded, current, options, autoExpand, hasOnOptionSelect, nodeEnv,
          notified, dom, pc, pointerTarget, event, prevented, thrown, ret,
          pre, downs, hasOnKeyDown, entry, keyPassed, pointerStart>>

props == <<options, autoExpand, hasOnOptionSelect, hasOnKeyDown, nodeEnv>>

Min(a, b) == IF a < b THEN a ELSE b
Max(a, b) == IF a > b THEN a ELSE b

\* ---------------------------------------------- active-descendant tracker
\* position of id in the ordered option list, 0 when it is not in the list
IndexOf(id, opts) ==
  IF \E i \in 1..Len(opts) : opts[i] = id
  THEN CHOOSE i \in 1..Len(opts) : opts[i] = id
  ELSE 0

\* next(): the option after the current one; the first when none is active;
\* stays at the last; a no-op on an empty list
next(cur, opts) ==
  IF Len(opts) = 0 THEN cur
  ELSE IF IndexOf(cur, opts) = 0 THEN opts[1]
  ELSE IF IndexOf(cur, opts) < Len(opts) THEN opts[IndexOf(cur, opts) + 1]
  ELSE opts[Len(opts)]

\* prev(): symmetric, moving backward; clamps at the first
prev(cur, opts) ==
  IF Len(opts) = 0 THEN cur
  ELSE IF IndexOf(cur, opts) = 0 THEN opts[Len(opts)]
  ELSE IF IndexOf(cur, opts) > 1 THEN opts[IndexOf(cur, opts) - 1]
  ELSE opts[1]

\* clear(): no active id
clear == null

\* update(id): force-sets the active id
update(id) == id

\* check(id): whether id is the current active id
check(cur, id) == cur # null /\ id = cur

\* ---------------------------------------------------------------- render
\* aria-activedescendant={activeDescendant.current ?? undefined}
AriaActiveDescendant(cur) == IF cur = null THEN undefined ELSE cur

\* mutant: the option never reports itself selected
AutocompleteOption_NeverSelected(cur, id) == [id |-> id, selected |-> FALSE]

\* <li aria-selected={selected} id={htmlId}>, selected = checkIfActive(htmlId)
AutocompleteOption(cur, id) == [id |-> id, selected |-> check(cur, id)]

\* the elements AutocompleteComponent returns: the input's ARIA attributes and
\* the listbox, whose children are rendered only while expanded
Render(exp, cur, opts) ==
  [activedescendant |-> AriaActiveDescendant(cur),
   ariaExpanded     |-> exp,
   listbox          |-> IF exp
                        THEN [i \in 1..Len(opts) |-> AutocompleteOption(cur, opts[i])]
                        ELSE <<>>]

\* ids of the options present in the rendered list
RenderedIds(d) == {d.listbox[i].id : i \in 1..Len(d.listbox)}

\* the rendered option list in document order, as the tracker reads it
RenderedSeq(d) == [i \in 1..Len(d.listbox) |-> d.listbox[i].id]

NoEvent == [type |-> "none", key |-> "", alt |-> FALSE, id |-> null]

\* ------------------------------------------------------------------- Init
Init ==
  /\ expanded = FALSE
  /\ current = null
  /\ \E n \in 0..MaxOptions : options = [i \in 1..n |-> i]
  /\ autoExpand \in BOOLEAN
  /\ hasOnOptionSelect \in BOOLEAN
  /\ hasOnKeyDown \in BOOLEAN
  /\ nodeEnv \in NodeEnvs
  /\ notified = <<>>
  /\ dom = Render(FALSE, null, options)
  /\ pc = "idle"
  /\ pointerTarget = null
  /\ event = NoEvent
  /\ prevented = FALSE
  /\ thrown = FALSE
  /\ ret = "none"
  /\ pre = [expanded |-> FALSE, current |-> null, notified |-> <<>>]
  /\ downs = 0 - 1
  /\ entry = <<>>
  /\ keyPassed = <<>>
  /\ pointerStart = <<>>

\* ------------------------------------------- ActiveDescendantContext default
\* what a call returns: it either raises an Error or returns a value
Raise == [thrown |-> TRUE, ret |-> "none"]
Return(v) == [thrown |-> FALSE, ret |-> v]

\* mutant: the default checkIfActive throws in every build
defaultCheckIfActive_AlwaysThrows(env, id) == Raise

\* the default checkIfActive: throws outside production, else returns false
defaultCheckIfActive(env, id) ==
  IF env # "production" THEN Raise ELSE Return("false")

\* the default onOptionSelect: throws outside production, else does nothing
defaultOnOptionSelect(env, id, value) ==
  IF env # "production" THEN Raise ELSE Return("undefined")

\* ------------------------------------------------------ container handlers
\* what one run of a handler asks for: the setExpanded calls it makes (no
\* call: {}), the tracker operation it delegates to, and e.preventDefault()
Effects(setExp, op, prevent) ==
  [setExpanded |-> setExp, tracker |-> op, preventDefault |-> prevent]

\* mutant: Escape collapses the listbox without clearing the tracker
trackActiveDescendant_EscKeepsActive(exp, key, alt) ==
  IF exp
  THEN IF key = KeyCode.DOWN THEN Effects({}, "next", TRUE)
       ELSE IF key = KeyCode.UP THEN Effects({}, "prev", TRUE)
       ELSE IF key = KeyCode.ESC THEN Effects({FALSE}, "none", FALSE)
       ELSE IF key = KeyCode.ENTER THEN Effects({}, "click", FALSE)
       ELSE Effects({}, "none", FALSE)
  ELSE IF key = KeyCode.ENTER /\ alt THEN Effects({TRUE}, "none", FALSE)
       ELSE Effects({}, "none", FALSE)

\* mutant: ArrowDown delegates to prev()
trackActiveDescendant_DownCallsPrev(exp, key, alt) ==
  IF exp
  THEN IF key = KeyCode.DOWN THEN Effects({}, "prev", TRUE)
       ELSE IF key = KeyCode.UP THEN Effects({}, "prev", TRUE)
       ELSE IF key = KeyCode.ESC THEN Effects({FALSE}, "clear", FALSE)
       ELSE IF key = KeyCode.ENTER THEN Effects({}, "click", FALSE)
       ELSE Effects({}, "none", FALSE)
  ELSE IF key = KeyCode.ENTER /\ alt THEN Effects({TRUE}, "none", FALSE)
       ELSE Effects({}, "none", FALSE)

\* mutant: ArrowUp delegates to next()
trackActiveDescendant_UpCallsNext(exp, key, alt) ==
  IF exp
  THEN IF key = KeyCode.DOWN THEN Effects({}, "next", TRUE)
       ELSE IF key = KeyCode.UP THEN Effects({}, "next", TRUE)
       ELSE IF key = KeyCode.ESC THEN Effects({FALSE}, "clear", FALSE)
       ELSE IF key = KeyCode.ENTER THEN Effects({}, "click", FALSE)
       ELSE Effects({}, "none", FALSE)
  ELSE IF key = KeyCode.ENTER /\ alt THEN Effects({TRUE}, "none", FALSE)
       ELSE Effects({}, "none", FALSE)

\* mutant: ArrowUp navigates without suppressing the browser default
trackActiveDescendant_UpKeepsDefault(exp, key, alt) ==
  IF exp
  THEN IF key = KeyCode.DOWN THEN Effects({}, "next", TRUE)
       ELSE IF key = KeyCode.UP THEN Effects({}, "prev", FALSE)
       ELSE IF key = KeyCode.ESC THEN Effects({FALSE}, "clear", FALSE)
       ELSE IF key = KeyCode.ENTER THEN Effects({}, "click", FALSE)
       ELSE Effects({}, "none", FALSE)
  ELSE IF key = KeyCode.ENTER /\ alt THEN Effects({TRUE}, "none", FALSE)
       ELSE Effects({}, "none", FALSE)

\* mutant: a collapsed widget expands on Enter without looking at altKey
trackActiveDescendant_EnterExpands(exp, key, alt) ==
  IF exp
  THEN IF key = KeyCode.DOWN THEN Effects({}, "next", TRUE)
       ELSE IF key = KeyCode.UP THEN Effects({}, "prev", TRUE)
       ELSE IF key = KeyCode.ESC THEN Effects({FALSE}, "clear", FALSE)
       ELSE IF key = KeyCode.ENTER THEN Effects({}, "click", FALSE)
       ELSE Effects({}, "none", FALSE)
  ELSE IF key = KeyCode.ENTER THEN Effects({TRUE}, "none", FALSE)
       ELSE Effects({}, "none", FALSE)

\* trackActiveDescendant(e), the keydown branches
trackActiveDescendant(exp, key, alt) ==
  IF exp
  THEN IF key = KeyCode.DOWN THEN Effects({}, "next", TRUE)
       ELSE IF key = KeyCode.UP THEN Effects({}, "prev", TRUE)
       ELSE IF key = KeyCode.ESC THEN Effects({FALSE}, "clear", FALSE)
       ELSE IF key = KeyCode.ENTER THEN Effects({}, "click", FALSE)
       ELSE Effects({}, "none", FALSE)
  ELSE IF key = KeyCode.ENTER /\ alt THEN Effects({TRUE}, "none", FALSE)
       ELSE Effects({}, "none", FALSE)

\* mutant: focus expands whatever autoExpand is
onFocusHandler_AlwaysExpands(autoExp) == Effects({TRUE}, "none", FALSE)

\* onFocusHandler: setExpanded(autoExpand)
onFocusHandler(autoExp) == Effects({autoExp}, "none", FALSE)

\* mutant: blur leaves the expand state alone
onBlurHandler_StaysExpanded == Effects({}, "none", FALSE)

\* onBlurHandler: setExpanded(false)
onBlurHandler == Effects({FALSE}, "none", FALSE)

\* one call a handler makes, with its argument
Call(fn, arg) == [fn |-> fn, arg |-> arg]

\* mutant: the host is handed the option's id
onOptionSelect_NotifiesId(id, value) ==
  /\ current' = update(id)
  /\ notified' = IF hasOnOptionSelect THEN Append(notified, id) ELSE notified
  /\ entry' = <<Call("update", id)>> \o
              (IF hasOnOptionSelect THEN <<Call("onOptionSelect", id)>> ELSE <<>>)

\* mutant: the host is notified but the tracker is not updated
onOptionSelect_SkipsUpdate(id, value) ==
  /\ current' = current
  /\ notified' = IF hasOnOptionSelect THEN Append(notified, value) ELSE notified
  /\ entry' = IF hasOnOptionSelect THEN <<Call("onOptionSelect", value)>> ELSE <<>>

\* mutant: the host is notified before the tracker is updated
onOptionSelect_NotifiesFirst(id, value) ==
  /\ current' = update(id)
  /\ notified' = IF hasOnOptionSelect THEN Append(notified, value) ELSE notified
  /\ entry' = (IF hasOnOptionSelect THEN <<Call("onOptionSelect", value)>> ELSE <<>>)
              \o <<Call("update", id)>>

\* activeDescendantState.onOptionSelect(id, newValue): update the tracker,
\* then notify the host when it passed a callback
onOptionSelect(id, value) ==
  /\ current' = update(id)
  /\ notified' = IF hasOnOptionSelect THEN Append(notified, value) ELSE notified
  /\ entry' = <<Call("update", id)>> \o
              (IF hasOnOptionSelect THEN <<Call("onOptionSelect", value)>> ELSE <<>>)

\* a handler that does not reach the selection entry point
NotSelected == UNCHANGED <<current, notified>> /\ entry' = <<>>

\* mutant: the option passes its id where its value belongs
onClick_PassesId(id) == onOptionSelect(id, id)

\* the option item's onClick: onOptionSelect(htmlId, value)
onClick(id) == onOptionSelect(id, OptionValue(id))

\* mutant: the option listens to click only
OptionListeners_ClickOnly == {"click"}

\* the DOM events the option's <li> binds onClick to
OptionListeners == {"click", "mousedown"}

\* click() of the tracker: activates the rendered option that is active
click ==
  IF current # null /\ current \in RenderedIds(dom)
  THEN onClick(current)
  ELSE NotSelected

\* the state a handler leaves once React has applied its updates
Apply(fx) ==
  /\ expanded' = IF fx.setExpanded = {} THEN expanded
                 ELSE CHOOSE b \in fx.setExpanded : TRUE
  /\ CASE fx.tracker = "next"  -> /\ current' = next(current, RenderedSeq(dom))
                                  /\ UNCHANGED notified
                                  /\ entry' = <<>>
       [] fx.tracker = "prev"  -> /\ current' = prev(current, RenderedSeq(dom))
                                  /\ UNCHANGED notified
                                  /\ entry' = <<>>
       [] fx.tracker = "clear" -> /\ current' = clear
                                  /\ UNCHANGED notified
                                  /\ entry' = <<>>
       [] fx.tracker = "click" -> click
       [] OTHER                -> NotSelected
  /\ prevented' = fx.preventDefault
  /\ dom' = Render(expanded', current', options)

\* the press counter: the length of a run of ArrowDown keydowns that began
\* with the listbox expanded and no active id; -1 outside such a run
Count(key) ==
  /\ downs' = IF key = KeyCode.DOWN /\ downs >= 0 /\ downs < MaxPresses
              THEN downs + 1
              ELSE IF expanded' /\ current' = null THEN 0 ELSE 0 - 1
  /\ pre' = [expanded |-> expanded, current |-> current, notified |-> notified]

NoResult == thrown' = FALSE /\ ret' = "none"

\* mutant: the host's onKeyDown runs before the widget's own handling
onKeyDownHandler_HostFirst(hasCb) ==
  (IF hasCb THEN <<"onKeyDown">> ELSE <<>>) \o <<"trackActiveDescendant">>

\* onKeyDownHandler: the steps it runs, in order: the widget's own handling,
\* then the host's onKeyDown when the host passed one
onKeyDownHandler(hasCb) ==
  <<"trackActiveDescendant">> \o (IF hasCb THEN <<"onKeyDown">> ELSE <<>>)

\* what each onKeyDown call among the steps finds: the event, whether the
\* widget has already called preventDefault on it, and the selections the
\* host has been notified of by then
Passthrough(steps, key, alt) ==
  LET handled(i) == \E j \in 1..(i - 1) : steps[j] = "trackActiveDescendant"
      seen(i) == [key |-> key, alt |-> alt,
                  defaultPrevented |-> IF handled(i) THEN prevented' ELSE FALSE,
                  notified |-> IF handled(i) THEN notified' ELSE notified]
      O[i \in 0..Len(steps)] ==
        IF i = 0 THEN <<>>
        ELSE IF steps[i] = "onKeyDown" THEN Append(O[i - 1], seen(i))
        ELSE O[i - 1]
  IN O[Len(steps)]

\* ---------------------------------------------------------------- actions
Focus ==
  /\ pc = "idle"
  /\ Apply(onFocusHandler(autoExpand))
  /\ event' = [NoEvent EXCEPT !.type = "focus"]
  /\ Count("")
  /\ NoResult
  /\ keyPassed' = <<>>
  /\ UNCHANGED <<props, pc, pointerTarget, pointerStart>>

Blur ==
  /\ pc \in {"idle", "blurPending"}
  /\ Apply(onBlurHandler)
  /\ event' = [NoEvent EXCEPT !.type = "blur"]
  /\ pc' = IF pc = "blurPending" THEN "clickPending" ELSE "idle"
  /\ Count("")
  /\ NoResult
  /\ keyPassed' = <<>>
  /\ UNCHANGED <<props, pointerTarget, pointerStart>>

\* onKeyDownHandler: trackActiveDescendant(e), then the host's onKeyDown
KeyDown(key, alt) ==
  /\ pc = "idle"
  /\ Len(notified) < MaxLog
  /\ Apply(trackActiveDescendant(expanded, key, alt))
  /\ event' = [NoEvent EXCEPT !.type = "keydown", !.key = key, !.alt = alt]
  /\ Count(IF expanded THEN key ELSE "")
  /\ NoResult
  /\ keyPassed' = Passthrough(onKeyDownHandler(hasOnKeyDown), key, alt)
  /\ UNCHANGED <<props, pc, pointerTarget, pointerStart>>

\* pointer pressed on a rendered option: its mousedown listener runs; the
\* input then loses focus
MouseDown(id) ==
  /\ pc = "idle"
  /\ UNCHANGED <<props, expanded>>
  /\ Len(notified) < MaxLog
  /\ id \in RenderedIds(dom)
  /\ IF "mousedown" \in OptionListeners
     THEN onClick(id)
     ELSE NotSelected
  /\ dom' = Render(expanded, current', options)
  /\ event' = [NoEvent EXCEPT !.type = "mousedown", !.id = id]
  /\ pc' = "blurPending"
  /\ pointerTarget' = id
  /\ pointerStart' = notified
  /\ prevented' = FALSE
  /\ keyPassed' = <<>>
  /\ Count("")
  /\ NoResult

\* pointer released: the click reaches the option only if it is still rendered
Click ==
  /\ pc = "clickPending"
  /\ UNCHANGED <<props, expanded>>
  /\ IF "click" \in OptionListeners /\ pointerTarget \in RenderedIds(dom)
     THEN onClick(pointerTarget)
     ELSE NotSelected
  /\ dom' = Render(expanded, current', options)
  /\ event' = [NoEvent EXCEPT !.type = "click", !.id = pointerTarget]
  /\ pc' = "idle"
  /\ pointerTarget' = null
  /\ prevented' = FALSE
  /\ keyPassed' = <<>>
  /\ Count("")
  /\ NoResult
  /\ UNCHANGED pointerStart

\* an AutocompleteOption outside any Autocomplete renders: it reads the
\* context's default value and calls checkIfActive(htmlId)
OrphanRender(id) ==
  /\ pc = "idle"
  /\ thrown' = defaultCheckIfActive(nodeEnv, id).thrown
  /\ ret' = defaultCheckIfActive(nodeEnv, id).ret
  /\ event' = [NoEvent EXCEPT !.type = "defaultCheckIfActive", !.id = id]
  /\ pre' = [expanded |-> expanded, current |-> current, notified |-> notified]
  /\ UNCHANGED <<props, expanded, current, notified, dom, pc, pointerTarget,
                 prevented, downs, entry, keyPassed, pointerStart>>

\* its onClick runs: the context's default onOptionSelect(htmlId, value)
OrphanSelect(id) ==
  /\ pc = "idle"
  /\ thrown' = defaultOnOptionSelect(nodeEnv, id, OptionValue(id)).thrown
  /\ ret' = defaultOnOptionSelect(nodeEnv, id, OptionValue(id)).ret
  /\ event' = [NoEvent EXCEPT !.type = "defaultOnOptionSelect", !.id = id]
  /\ pre' = [expanded |-> expanded, current |-> current, notified |-> notified]
  /\ UNCHANGED <<props, expanded, current, notified, dom, pc, pointerTarget,
                 prevented, downs, entry, keyPassed, pointerStart>>

Next ==
  \/ Blur
  \/ Focus
  \/ \E key \in Keys, alt \in BOOLEAN : KeyDown(key, alt)
  \/ \E id \in OptionIds : MouseDown(id)
  \/ Click
  \/ \E id \in OptionIds : OrphanRender(id)
  \/ \E id \in OptionIds : OrphanSelect(id)

Spec == Init /\ [][Next]_vars

\* ----------------------------------------------------------------- claims
IsKeyDown(key) == event.type = "keydown" /\ event.key = key

\* C1: the active id is null or the id of an option present in the rendered
\* list; in particular it is null whenever the listbox is collapsed.
C1_ActiveIdIsRendered == current = null \/ current \in RenderedIds(dom)

\* C2: after a blur, whatever the state and the active id were before, the
\* widget is collapsed and the tracker is cleared.
C2_BlurCollapsesAndClears ==
  event.type = "blur" => expanded = FALSE /\ current = null

\* C3: after an Escape keydown on an expanded listbox the widget is collapsed,
\* the active id is null and check(id) is false for every id.
C3_EscapeCollapsesAndClears ==
  IsKeyDown(KeyCode.ESC) /\ pre.expanded =>
    /\ expanded = FALSE
    /\ current = null
    /\ \A id \in OptionIds : ~check(current, id)

C3_Witness ==
  IsKeyDown(KeyCode.ESC) /\ pre.expanded /\ pre.current # null /\ ~expanded

\* C4: the widget starts collapsed; a focus on a collapsed widget leaves it
\* expanded exactly when autoExpand is set; Alt+Enter on a collapsed widget
\* expands it whatever autoExpand is.
C4_ExpandTransitions ==
  /\ event.type = "none" => expanded = FALSE
  /\ event.type = "focus" /\ ~pre.expanded => expanded = autoExpand
  /\ IsKeyDown(KeyCode.ENTER) /\ event.alt /\ ~pre.expanded => expanded = TRUE

C4_Witness ==
  IsKeyDown(KeyCode.ENTER) /\ event.alt /\ ~pre.expanded /\ ~autoExpand /\ expanded

\* C5: after k consecutive ArrowDown keydowns on a listbox that was expanded
\* with no active id, the active id is option min(k, N) in document order
\* (none for k = 0), and stays null when there is no option.
C5_ArrowDownAdvancesAndClamps ==
  downs >= 0 =>
    current = IF Len(options) = 0 \/ downs = 0 THEN null
              ELSE options[Min(downs, Len(options))]

C5_Witness ==
  /\ Len(options) >= 2
  /\ downs > Len(options)
  /\ current = options[Len(options)]

\* C6: an ArrowUp keydown on an expanded listbox with an active option moves
\* the active id to the option just before it, and leaves it at the first
\* option when the first option was active.
C6_ArrowUpRetreatsAndClamps ==
  IsKeyDown(KeyCode.UP) /\ pre.expanded /\ IndexOf(pre.current, options) >= 1 =>
    current = options[Max(IndexOf(pre.current, options) - 1, 1)]

C6_Witness ==
  /\ IsKeyDown(KeyCode.UP) /\ pre.expanded
  /\ Len(options) >= 2
  /\ pre.current = options[1]
  /\ current = options[1]

\* C7: an Enter keydown on an expanded listbox notifies the host once with the
\* value of the active option and keeps the expand state; with no active
\* option it notifies nobody and changes nothing.
C7_EnterSelectsActiveOption ==
  IsKeyDown(KeyCode.ENTER) /\ pre.expanded =>
    /\ expanded = pre.expanded
    /\ current = pre.current
    /\ notified = IF pre.current # null /\ hasOnOptionSelect
                  THEN Append(pre.notified, OptionValue(pre.current))
                  ELSE pre.notified

C7_Witness ==
  /\ IsKeyDown(KeyCode.ENTER) /\ pre.expanded /\ hasOnOptionSelect
  /\ Len(options) >= 2
  /\ pre.current = options[2]
  /\ notified = Append(pre.notified, OptionValue(options[2]))

\* C8: in a pointer interaction on a rendered option the selection is made
\* on pointer-down, while the listbox is still expanded, and the blur that
\* follows collapses the widget without undoing it: the host has been called
\* with that option's value.
C8_PointerSelectsBeforeBlur ==
  /\ event.type = "mousedown" =>
       /\ expanded /\ pc = "blurPending"
       /\ current = pointerTarget
       /\ hasOnOptionSelect =>
            notified = Append(pre.notified, OptionValue(pointerTarget))
  /\ pc = "clickPending" =>
       /\ event.type = "blur" /\ pre.expanded /\ ~expanded
       /\ notified = pre.notified
       /\ hasOnOptionSelect =>
            /\ Len(notified) >= 1
            /\ notified[Len(notified)] = OptionValue(pointerTarget)

C8_Witness ==
  /\ pc = "clickPending" /\ ~expanded /\ hasOnOptionSelect
  /\ Len(options) >= 3
  /\ pointerTarget = options[3]
  /\ notified = <<OptionValue(options[3])>>

\* C9: the rendered input's aria-activedescendant is the active id, absent
\* when there is none; a rendered option has aria-selected true exactly when
\* its id is the active id; at most one rendered option has it true.
C9_AriaReflectsActiveId ==
  /\ current # null => dom.activedescendant = current
  /\ current = null => dom.activedescendant = undefined
  /\ \A i \in 1..Len(dom.listbox) :
       dom.listbox[i].selected <=> dom.listbox[i].id = current
  /\ Cardinality({i \in 1..Len(dom.listbox) : dom.listbox[i].selected}) <= 1

C9_Witness ==
  /\ Len(dom.listbox) >= 2
  /\ dom.activedescendant = dom.listbox[2].id
  /\ dom.listbox[2].selected
  /\ ~dom.listbox[1].selected

\* C10: without a provider, checkIfActive and onOptionSelect both raise in a
\* non-production build; in a production build neither raises, checkIfActive
\* returns false for every id and onOptionSelect changes no state and
\* notifies no host.
C10_DefaultContextPolicy ==
  event.type \in {"defaultCheckIfActive", "defaultOnOptionSelect"} =>
    /\ nodeEnv # "production" => thrown
    /\ nodeEnv = "production" =>
         /\ ~thrown
         /\ event.type = "defaultCheckIfActive" => ret = "false"
         /\ expanded = pre.expanded
         /\ current = pre.current
         /\ notified = pre.notified
         /\ dom = Render(pre.expanded, pre.current, options)

C10_Witness ==
  /\ event.type = "defaultOnOptionSelect"
  /\ nodeEnv = "production"
  /\ ~thrown
  /\ expanded

\* the two ways an option is selected: Enter on the active option of an
\* expanded listbox, and pointer-down on a rendered option
ViaKeyboard == IsKeyDown(KeyCode.ENTER) /\ pre.expanded /\ pre.current # null
ViaPointer == event.type = "mousedown"
Chosen == IF ViaPointer THEN event.id ELSE pre.current

\* the values the host was notified of during the last handler
Delivered == SubSeq(notified, Len(pre.notified) + 1, Len(notified))

\* C11: a keydown has its browser default suppressed exactly when the listbox
\* was expanded and the key is ArrowDown or ArrowUp.
C11_ArrowKeysPreventDefault ==
  event.type = "keydown" =>
    (prevented <=> pre.expanded /\ event.key \in {KeyCode.DOWN, KeyCode.UP})

C11_Witness == IsKeyDown(KeyCode.UP) /\ pre.expanded /\ prevented

\* C12: pressing Enter on an option reached by keyboard delivers the same
\* payload to the host, and leaves the same active id, as pointer-down on
\* that option: both deliver the option's value and leave the option active.
C12_KeyboardMatchesPointer ==
  ViaKeyboard \/ ViaPointer =>
    /\ current = Chosen
    /\ Delivered = IF hasOnOptionSelect THEN <<OptionValue(Chosen)>> ELSE <<>>

C12_Witness ==
  /\ ViaKeyboard /\ hasOnOptionSelect
  /\ Len(options) >= 2
  /\ Chosen = options[2]
  /\ notified = <<OptionValue(options[2]), OptionValue(options[2])>>
  /\ pointerStart = <<>>

\* C13: after pointer-down on option x, whatever the active id was, check(x)
\* is true and check(y) is false for every other id y.
C13_PointerForcesActiveId ==
  ViaPointer =>
    /\ check(current, event.id)
    /\ \A y \in OptionIds \ {event.id} : ~check(current, y)

C13_Witness ==
  /\ ViaPointer
  /\ pre.current # null
  /\ pre.current # event.id
  /\ check(current, event.id)

\* C14: each run of the selection entry point with (id, value) calls the
\* tracker's update(id) first and then the host's callback once with that
\* value; without a host callback it only updates the tracker.  A handler
\* notifies the host as often as the entry point called it.
C14_EntryPointUpdatesThenNotifies ==
  /\ ViaKeyboard \/ ViaPointer =>
       entry = <<Call("update", Chosen)>> \o
               (IF hasOnOptionSelect
                THEN <<Call("onOptionSelect", OptionValue(Chosen))>>
                ELSE <<>>)
  /\ ~hasOnOptionSelect => notified = <<>> /\ Len(entry) <= 1
  /\ event.type \in {"focus", "blur", "keydown", "mousedown", "click"} =>
       Len(Delivered) = Cardinality({i \in 1..Len(entry) : entry[i].fn = "onOptionSelect"})

C14_Witness ==
  /\ ViaPointer /\ hasOnOptionSelect
  /\ Len(entry) = 2
  /\ entry[1] = Call("update", event.id)
  /\ entry[2] = Call("onOptionSelect", OptionValue(event.id))

\* C15: every keydown, whatever the key and the expand state, reaches the
\* host's onKeyDown exactly once, after the widget handled it: the host finds
\* the event already prevented, and the selection already notified, when the
\* widget did so.
C15_KeyDownPassthrough ==
  event.type = "keydown" =>
    keyPassed = IF hasOnKeyDown
                THEN <<[key |-> event.key, alt |-> event.alt,
                        defaultPrevented |-> prevented, notified |-> notified]>>
                ELSE <<>>

C15_Witness ==
  /\ ViaKeyboard /\ hasOnKeyDown
  /\ Len(keyPassed) = 1
  /\ Len(keyPassed[1].notified) = Len(pre.notified) + 1

\* C16: whenever the listbox goes from collapsed to expanded, by focus or by
\* Alt+Enter, no option is active.
C16_ExpandsWithNoActiveId ==
  event.type \in {"focus", "keydown"} /\ ~pre.expanded /\ expanded =>
    current = null

\* C17: one pointer interaction on an option, from pointer-down to click,
\* notifies the host exactly once, with that option's value.
C17_PointerNotifiesOnce ==
  /\ pc \in {"blurPending", "clickPending"} =>
       Len(notified) <= Len(pointerStart) + 1
  /\ event.type = "click" =>
       notified = pointerStart \o
                  (IF hasOnOptionSelect THEN <<OptionValue(event.id)>> ELSE <<>>)

C17_Witness ==
  /\ event.type = "click" /\ hasOnOptionSelect
  /\ Len(pointerStart) = 1
  /\ notified = Append(pointerStart, OptionValue(event.id))

\* C18: a focus event on an expanded listbox leaves it expanded, whatever
\* autoExpand is.
C18_FocusKeepsExpanded ==
  event.type = "focus" /\ pre.expanded => expanded

\* C19: a keydown on a collapsed widget, other than Alt+Enter, leaves the
\* expand state and the active id as they were and notifies no host.
C19_CollapsedKeysAreInert ==
  event.type = "keydown" /\ ~pre.expanded
    /\ ~(event.key = KeyCode.ENTER /\ event.alt) =>
      /\ expanded = FALSE
      /\ current = pre.current
      /\ notified = pre.notified
      /\ entry = <<>>

C19_Witness ==
  /\ IsKeyDown(KeyCode.ENTER) /\ ~event.alt
  /\ ~pre.expanded /\ ~expanded
  /\ pre.current # null
  /\ current = pre.current

====
